---------------------------- MODULE Spec2Model ----------------------------
(***************************************************************************)
(* A model of the transcription pipeline of noScribe (src/noScribe.py):    *)
(* App.button_start_event with its nested helpers overlap_len,             *)
(* find_speaker, SimpleProgressHook and save_doc, and the event handlers   *)
(* that Tk runs inside self.update().                                      *)
(*                                                                         *)
(* Times are whole milliseconds.  A speaker interval is a record           *)
(* [start, end, label]: start is int(segment.start * 1000), end is         *)
(* int((segment.start + segment.duration) * 1000) and segment.duration *   *)
(* 1000 is end - start.  A label is the tuple of its characters, so that   *)
(* label[8:] and spkr[:2] are computed and not assumed.                    *)
(*                                                                         *)
(* The helper functions are also run on their own, on inputs drawn from   *)
(* small sets: SpecFS runs find_speaker, SpecOL overlap_len and SpecSP     *)
(* set_progress.  Spec is the application.                                 *)
(*                                                                         *)
(* A definition whose name ends in _ and a word (TakesShorter_NotStrict)   *)
(* is a faulty variant of the definition that follows it; the properties   *)
(* are checked to fail with it.                                            *)
(***************************************************************************)
EXTENDS Integers, Sequences, FiniteSets, TLC

\* ------------------------------------------------------------------ bounds

\* Times of the find_speaker inputs range over 0..MaxT.
MaxT == 4

\* A diarization given to find_speaker holds at most MaxIntervals intervals.
MaxIntervals == 2

\* The transcriber emits at most MaxSegs text segments in a run.
MaxSegs == 3

\* The diarization engine calls the progress hook at most MaxHooks times.
MaxHooks == 2

\* A run renames its output file at most MaxSuffix times.
MaxSuffix == 2

\* The values given to set_progress range over 0..MaxValue.
MaxValue == 101

\* ------------------------------------------------------------ text helpers

Digits == <<"0", "1", "2", "3", "4", "5", "6", "7", "8", "9">>

\* The engine's raw label of speaker n: "SPEAKER_00", "SPEAKER_01", ...
RawLabel(n) ==
    <<"S", "P", "E", "A", "K", "E", "R", "_", Digits[(n \div 10) + 1], Digits[(n % 10) + 1]>>

SpeakerIds == {0, 1}

RawLabels == {RawLabel(n) : n \in SpeakerIds}

\* s[k:] of Python, k counted from 0.
StrFrom(s, k) == SubSeq(s, k + 1, Len(s))

\* s[:k] of Python.
StrTo(s, k) == SubSeq(s, 1, IF k < Len(s) THEN k ELSE Len(s))

EmptyStr == << >>

\* f'S{label[8:]}': "SPEAKER_01" > "S01"
ShortenLabel(label) == <<"S">> \o StrFrom(label, 8)

\* f"//{spkr}"
ParallelMark(spkr) == <<"/", "/">> \o spkr

\* ------------------------------------------------------------- overlap_len

\* A ratio is the pair <<numerator, denominator>>, denominator > 0; the
\* integer results -1 and 0 are <<-1, 1>> and <<0, 1>>.
RatGE(a, b) == a[1] * b[2] >= b[1] * a[2]

RatGT(a, b) == a[1] * b[2] > b[1] * a[2]

RatEq(a, b) == a[1] * b[2] = b[1] * a[2]

RECURSIVE GCD(_, _)
GCD(m, n) == IF n = 0 THEN m ELSE GCD(n, m % n)

\* The ratio n / d, d > 0, in lowest terms.
Lowest(n, d) ==
    LET g == GCD(IF n < 0 THEN -n ELSE n, d)
    IN  <<n \div g, d \div g>>

RatAdd(a, b) == Lowest(a[1] * b[2] + b[1] * a[2], a[2] * b[2])

RatMul(a, b) == Lowest(a[1] * b[1], a[2] * b[2])

\* a / b for b > 0
RatDiv(a, b) == Lowest(a[1] * b[2], a[2] * b[1])

Whole(n) == <<n, 1>>

EarlyExit == <<-1, 1>>

NoOverlap == <<0, 1>>

overlap_len_ZeroIsFull(ss_start, ss_end, ts_start, ts_end) ==
    IF ts_end < ss_start THEN EarlyExit
    ELSE IF ts_start > ss_end THEN NoOverlap
    ELSE LET overlap_start == IF ts_start > ss_start THEN ts_start ELSE ss_start
             overlap_end == IF ts_end > ss_end THEN ss_end ELSE ts_end
             ol_len == overlap_end - overlap_start + 1
             ts_len == ts_end - ts_start
         IN  IF ts_len = 0 THEN Whole(1) ELSE <<ol_len, ts_len>>

overlap_len_Swapped(ss_start, ss_end, ts_start, ts_end) ==
    IF ts_end < ss_start THEN NoOverlap
    ELSE IF ts_start > ss_end THEN EarlyExit
    ELSE LET overlap_start == IF ts_start > ss_start THEN ts_start ELSE ss_start
             overlap_end == IF ts_end > ss_end THEN ss_end ELSE ts_end
             ol_len == overlap_end - overlap_start + 1
             ts_len == ts_end - ts_start
         IN  IF ts_len = 0 THEN EarlyExit ELSE <<ol_len, ts_len>>

overlap_len_Exclusive(ss_start, ss_end, ts_start, ts_end) ==
    IF ts_end < ss_start THEN EarlyExit
    ELSE IF ts_start > ss_end THEN NoOverlap
    ELSE LET overlap_start == IF ts_start > ss_start THEN ts_start ELSE ss_start
             overlap_end == IF ts_end > ss_end THEN ss_end ELSE ts_end
             ol_len == overlap_end - overlap_start
             ts_len == ts_end - ts_start
         IN  IF ts_len = 0 THEN EarlyExit ELSE <<ol_len, ts_len>>

overlap_len(ss_start, ss_end, ts_start, ts_end) ==
    IF ts_end < ss_start THEN EarlyExit
    ELSE IF ts_start > ss_end THEN NoOverlap
    ELSE LET overlap_start == IF ts_start > ss_start THEN ts_start ELSE ss_start
             overlap_end == IF ts_end > ss_end THEN ss_end ELSE ts_end
             ol_len == overlap_end - overlap_start + 1
             ts_len == ts_end - ts_start
         IN  IF ts_len = 0 THEN EarlyExit ELSE <<ol_len, ts_len>>

\* ------------------------------------------------------------ find_speaker

overlap_threshold == <<4, 5>>

\* The locals of find_speaker before the loop.
ScanInit ==
    [spkr |-> EmptyStr, overlap_found |-> NoOverlap, segment_len |-> 0,
     is_parallel |-> FALSE, stopped |-> FALSE]

\* The branch of the loop body that has already found a fitting segment
\* takes iv when it overlaps well and is shorter.
TakesShorter_NotStrict(t, iv, st) ==
    RatGE(t, overlap_threshold) /\ (iv.end - iv.start <= st.segment_len)

TakesShorter(t, iv, st) ==
    RatGE(t, overlap_threshold) /\ (iv.end - iv.start < st.segment_len)

\* The branch of the loop body with no fitting segment yet takes iv when it
\* overlaps better than what was found.
TakesBetter_OrEqual(t, st) == RatGE(t, st.overlap_found)

TakesBetter(t, st) == RatGT(t, st.overlap_found)

\* Whether the loop has a fitting segment already.
AlreadyFitting_Never(st) == FALSE

AlreadyFitting(st) == RatGE(st.overlap_found, overlap_threshold)

\* One iteration of the loop of find_speaker over interval iv.
ScanStep(st, iv, transcript_start, transcript_end) ==
    LET t == overlap_len(iv.start, iv.end, transcript_start, transcript_end)
        taken == [st EXCEPT !.overlap_found = t,
                            !.segment_len = iv.end - iv.start,
                            !.spkr = ShortenLabel(iv.label)]
    IN  IF st.stopped THEN st
        ELSE IF t = EarlyExit THEN [st EXCEPT !.stopped = TRUE]
        ELSE IF AlreadyFitting(st)
             THEN IF TakesShorter(t, iv, st)
                  THEN [taken EXCEPT !.is_parallel = TRUE]
                  ELSE st
        ELSE IF TakesBetter(t, st) THEN taken
        ELSE st

\* The locals of find_speaker after the loop has run over diarization[1..n].
RECURSIVE ScanTo(_, _, _, _)
ScanTo(diarization, n, transcript_start, transcript_end) ==
    IF n = 0 THEN ScanInit
    ELSE ScanStep(ScanTo(diarization, n - 1, transcript_start, transcript_end),
                  diarization[n], transcript_start, transcript_end)

Scan(diarization, transcript_start, transcript_end) ==
    ScanTo(diarization, Len(diarization), transcript_start, transcript_end)

\* The return statement of find_speaker.
MarksParallel_Always(par, is_parallel) == is_parallel

MarksParallel(par, is_parallel) == par /\ is_parallel

find_speaker(par, diarization, transcript_start, transcript_end) ==
    LET st == Scan(diarization, transcript_start, transcript_end)
    IN  IF MarksParallel(par, st.is_parallel) THEN ParallelMark(st.spkr) ELSE st.spkr

\* ------------------------------------------------------------ set_progress

\* The floating-point literals of set_progress, as exact ratios.
Step1Share == <<5, 100>>

Step2Share == <<45, 100>>

Hundred == Whole(100)

\* The part of the bar that is filled when step 3 begins.
TranscribeBase_NoDiarization(sd) == Step1Share

TranscribeBase(sd) ==
    IF sd = "auto" THEN RatAdd(Step1Share, Step2Share) ELSE Step1Share

\* progr_factor
TranscribeFactor_Half(sd) == <<5, 10>>

TranscribeFactor(sd) == IF sd = "auto" THEN <<5, 10>> ELSE <<95, 100>>

\* What set_progress(step, value) gives to self.progress_bar.set, a ratio
\* of the full bar; sd is self.speaker_detection.
set_progress(step, value, sd) ==
    IF step = 1 THEN RatDiv(RatMul(Whole(value), Step1Share), Hundred)
    ELSE IF step = 2
         THEN RatAdd(Step1Share, RatDiv(RatMul(Whole(value), Step2Share), Hundred))
    ELSE IF step = 3
         THEN RatAdd(TranscribeBase(sd),
                     RatDiv(RatMul(Whole(value), TranscribeFactor(sd)), Hundred))
    ELSE Whole(0)

\* --------------------------------------------------------------- variables

VARIABLES
    fs_pc,          \* "call" before find_speaker runs, "returned" after
    fs_parallel,    \* self.parallel of the call
    fs_diar,        \* the diarization argument
    fs_start,       \* transcript_start
    fs_end,         \* transcript_end
    fs_scan,        \* the locals of find_speaker when it returns
    fs_ret          \* the returned string

vars_fs == <<fs_pc, fs_parallel, fs_diar, fs_start, fs_end, fs_scan, fs_ret>>

VARIABLES
    pc,                 \* where button_start_event stands: "idle", an update point, an engine call, "done"
    cancel,             \* self.cancel
    audio_file,         \* self.audio_file
    transcript_file,    \* self.transcript_file
    my_transcript_file, \* self.my_transcript_file
    speaker_detection,  \* self.speaker_detection
    parallel,           \* self.parallel
    auto_save,          \* self.auto_save
    start,              \* self.start
    log_file,           \* self.log_file: "none", "open"
    diarization,        \* the local diarization: [bound, tracks]
    n_par,              \* the paragraphs appended to main_body after the header; p is the last
    speaker,            \* the local speaker
    doc,                \* the <a> elements of the document, in document order
    seg_n,              \* the number of segments the transcriber has emitted
    now,                \* seconds since proc_start_time
    last_auto_save,     \* self.last_auto_save
    files,              \* the output files on disk
    result,             \* how the run ended: "none", "running", "finished" or the error logged
    exc,                \* the message of the exception that ended the run
    report,             \* what a finished run reports: "saved" or "rescue_saving"
    stages,             \* history: the stages started in this run, in order
    failed,             \* history: the stages that failed in this run
    saves,              \* history: the successful writes of this run, in order
    hook_n,             \* history: the calls of the progress hook in this run
    save_log,           \* history: the calls of save_doc in this run, in order
    find_calls,         \* history: the segments find_speaker was called for in this run
    tmpdir,             \* the directory of the local tmpdir: "none", "exists"
    tmp_audio_file,     \* the file at self.tmp_audio_file: "none", "exists"
    errors,             \* history: the lines this run logged for the error that ended it
    last_run            \* history: how the run that returned last ended, while no run is on

vars_run ==
    <<pc, cancel, audio_file, transcript_file, my_transcript_file, speaker_detection,
      parallel, auto_save, start, log_file, diarization, n_par, speaker, doc, seg_n,
      now, last_auto_save, files, result, exc, report, stages, failed, saves, hook_n,
      save_log, find_calls, tmpdir, tmp_audio_file, errors, last_run>>

VARIABLES
    ol_pc,          \* "call" before overlap_len runs, "returned" after
    ol_ss,          \* ss_start
    ol_se,          \* ss_end
    ol_ts,          \* ts_start
    ol_te,          \* ts_end
    ol_ret          \* the returned ratio

vars_ol == <<ol_pc, ol_ss, ol_se, ol_ts, ol_te, ol_ret>>

VARIABLES
    sp_pc,          \* "call" before set_progress runs, "returned" after
    sp_step,        \* step
    sp_value,       \* value
    sp_sd,          \* self.speaker_detection
    sp_bar          \* what self.progress_bar.set was given

vars_sp == <<sp_pc, sp_step, sp_value, sp_sd, sp_bar>>

\* The variables of the helper functions run on their own.
vars_helpers == <<vars_fs, vars_ol, vars_sp>>

vars == <<vars_helpers, vars_run>>

\* ------------------------------------------------------- the pipeline: data

\* A path is its stem's base and the number of "_1" the stem ends with:
\* "t.html" is [base |-> "t", n |-> 0], "t_1.html" is [base |-> "t", n |-> 1].
NoPath == [base |-> "", n |-> 0]

\* The files the user picks in the save-as dialog.
UserPaths == {[base |-> "t", n |-> 0], [base |-> "u", n |-> 0]}

Paths == {[base |-> b, n |-> k] : b \in {"t", "u"}, k \in 0..MaxSuffix}

\* f'{transcript_path.parent}/{transcript_path.stem}_1.html'
AltPath_Same(path) == path

AltPath(path) == [path EXCEPT !.n = path.n + 1]

\* A file is absent, holds something this run did not write, or holds the
\* document this run wrote last.
Absent == [state |-> "absent", doc |-> << >>, n_par |-> 0]

Other == [state |-> "other", doc |-> << >>, n_par |-> 0]

Written_Header(d, np) == [state |-> "written", doc |-> << >>, n_par |-> np]

Written(d, np) == [state |-> "written", doc |-> d, n_par |-> np]

\* The disk a run starts with: "t_1.html" is a file of the user's, so that
\* the alternative name of "t.html" is taken and that of "u.html" is free.
InitialDisk == [p \in Paths |-> IF p = [base |-> "t", n |-> 1] THEN Other ELSE Absent]

\* The segment the transcriber emits as its i-th, in milliseconds of the
\* converted audio.
Seg(i) == [start |-> 10 * (i - 1), end |-> 10 * i]

\* What the diarization engine returns: nothing; two speakers in turn; one
\* speaker with a second one talking over the middle segment; one speaker
\* with a second one talking over the rest; one speaker with a pause; one
\* speaker with a second one who talks over the end and goes on alone.
Track(s, e, n) == [start |-> s, end |-> e, label |-> RawLabel(n)]

PipelineDiarizations ==
    {<< >>,
     <<Track(0, 10, 0), Track(10, 30, 1)>>,
     <<Track(0, 30, 0), Track(10, 20, 1)>>,
     <<Track(0, 40, 0), Track(10, 40, 1)>>,
     <<Track(0, 5, 0), Track(25, 30, 0)>>,
     <<Track(0, 20, 0), Track(10, 25, 1)>>}

Unbound == [bound |-> FALSE, tracks |-> << >>]

\* What entry_start holds, converted by millisec.
StartOffsets == {0, 500}

\* The seconds that pass while the transcriber works on one segment.
Ticks == {20, 21}

\* The seconds that pass while ffmpeg converts the audio.
ConvertTicks == {1}

\* (datetime.datetime.now() - self.last_auto_save).total_seconds() > 20
AutoSaveSeconds == 20

AutoSaveDue_AtLeast(t, last) == t - last >= AutoSaveSeconds

AutoSaveDue(t, last) == t - last > AutoSaveSeconds

\* How the ffmpeg call ends: Popen raises, or the process exits with a
\* return code (negative when a signal killed it); wrote tells whether it
\* has created the file at self.tmp_audio_file.
ConvertOutcomes ==
    {[launched |-> FALSE, returncode |-> 0, wrote |-> FALSE]}
        \cup {[launched |-> TRUE, returncode |-> 0, wrote |-> TRUE]}
        \cup {[launched |-> TRUE, returncode |-> r, wrote |-> w] :
                  r \in {-9, 1}, w \in BOOLEAN}

\* if ffmpeg_proc.returncode > 0: raise Exception(t('err_ffmpeg'))
ConvertRaises(o) == ~o.launched \/ o.returncode > 0

\* What the history variable failed records of the conversion: the stage
\* has succeeded when the tool was launched and exited with code 0.
ConvertSucceeded(o) == o.launched /\ o.returncode = 0

\* ---------------------------------------------------------------- save_doc

\* save_doc with the document d of np paragraphs: ok1 and ok2 tell whether
\* the first and the second open(..., 'w') succeed.  The result gives the
\* new self.my_transcript_file, the new files, whether a file was written,
\* whether the alternative name was used, the exception raised ("" for
\* none), the calls of open(..., 'w') in order and the file that the
\* rescue_saving message of line 874 names (NoPath when it is not logged).
Opened(path, ok) == [path |-> path, ok |-> ok]

\* self.logn(t('rescue_saving', file=self.my_transcript_file), 'error')
RescueLogged_Silent(alt) == NoPath

RescueLogged(alt) == alt

\* os.path.exists(self.my_transcript_file)
AltTaken_Never(fs, alt) == FALSE

AltTaken(fs, alt) == fs[alt].state # "absent"

save_doc(my, fs, d, np, ok1, ok2) ==
    IF ok1
    THEN [my |-> my, files |-> [fs EXCEPT ![my] = Written(d, np)],
          wrote |-> TRUE, rescued |-> FALSE, raised |-> "",
          opens |-> <<Opened(my, TRUE)>>, warned |-> NoPath]
    ELSE LET alt == AltPath(my)
         IN  IF AltTaken(fs, alt)
             THEN [my |-> alt, files |-> fs, wrote |-> FALSE, rescued |-> FALSE,
                   raised |-> "rescue_saving_failed",
                   opens |-> <<Opened(my, FALSE)>>, warned |-> NoPath]
             ELSE IF ok2
             THEN [my |-> alt, files |-> [fs EXCEPT ![alt] = Written(d, np)],
                   wrote |-> TRUE, rescued |-> TRUE, raised |-> "",
                   opens |-> <<Opened(my, FALSE), Opened(alt, TRUE)>>,
                   warned |-> RescueLogged(alt)]
             ELSE [my |-> alt, files |-> fs, wrote |-> FALSE, rescued |-> FALSE,
                   raised |-> "OSError",
                   opens |-> <<Opened(my, FALSE), Opened(alt, FALSE)>>,
                   warned |-> NoPath]

\* The first open of a save may fail while the file can still be renamed.
FirstOpen(my) == IF my.n < MaxSuffix THEN BOOLEAN ELSE {TRUE}

\* The history of writes after a save by the caller `by`.
Saved(r, by, d) ==
    IF r.wrote THEN Append(saves, [by |-> by, path |-> r.my, doc |-> d, seg_n |-> seg_n])
    ELSE saves

\* The history of the calls of save_doc after a call by the caller `by`
\* with self.my_transcript_file = my: what it opened, whether the
\* alternative name was in use when the first open failed, what it raised.
Called(r, by, my) ==
    Append(save_log,
           [by |-> by, path |-> my, opens |-> r.opens, raised |-> r.raised,
            rescued |-> r.rescued, warned |-> r.warned,
            alt_exists |-> ~r.opens[1].ok /\ files[AltPath(my)].state # "absent"])

\* if self.speaker_detection == 'auto':
DetectsSpeakers_Always(sd) == TRUE

DetectsSpeakers(sd) == sd = "auto"

\* ------------------------------------------------------------ event handlers

\* Tk runs the handlers of pending events inside self.update().
UpdatePoints ==
    {"u579", "u430_1", "u729", "u430_1b", "u430_2", "u719", "u781", "u894", "u952", "u430_3"}

\* The stop button is packed while a run is in progress, the start button
\* while none is: a stop is handled at the update points of a run only.
\* self.cancel after button_stop_event, answer being what askyesno returns.
StopSets_Toggle(answer, c) == IF answer THEN ~c ELSE c

StopSets(answer, c) == IF answer THEN TRUE ELSE c

button_stop_event ==
    /\ pc \in UpdatePoints
    /\ \E answer \in BOOLEAN : cancel' = StopSets(answer, cancel)
    /\ UNCHANGED <<pc, audio_file, transcript_file, my_transcript_file, speaker_detection,
                   parallel, auto_save, start, log_file, diarization, n_par, speaker, doc,
                   seg_n, now, last_auto_save, files, result, exc, report, stages, failed,
                   saves, hook_n>>
    /\ UNCHANGED <<save_log, find_calls>>
    /\ UNCHANGED <<tmpdir, tmp_audio_file, errors, last_run>>
    /\ UNCHANGED vars_helpers

button_transcript_file_event ==
    /\ pc \in UpdatePoints \cup {"idle"}
    /\ \E fn \in UserPaths \cup {NoPath} :
           transcript_file' = IF fn # NoPath THEN fn ELSE transcript_file
    /\ UNCHANGED <<pc, cancel, audio_file, my_transcript_file, speaker_detection,
                   parallel, auto_save, start, log_file, diarization, n_par, speaker, doc,
                   seg_n, now, last_auto_save, files, result, exc, report, stages, failed,
                   saves, hook_n>>
    /\ UNCHANGED <<save_log, find_calls>>
    /\ UNCHANGED <<tmpdir, tmp_audio_file, errors, last_run>>
    /\ UNCHANGED vars_helpers

button_audio_file_event ==
    /\ pc \in UpdatePoints \cup {"idle"}
    /\ \E fn \in {"a.wav", ""} :
           audio_file' = IF fn # "" THEN fn ELSE audio_file
    /\ UNCHANGED <<pc, cancel, transcript_file, my_transcript_file, speaker_detection,
                   parallel, auto_save, start, log_file, diarization, n_par, speaker, doc,
                   seg_n, now, last_auto_save, files, result, exc, report, stages, failed,
                   saves, hook_n>>
    /\ UNCHANGED <<save_log, find_calls>>
    /\ UNCHANGED <<tmpdir, tmp_audio_file, errors, last_run>>
    /\ UNCHANGED vars_helpers

\* ------------------------------------------------------- button_start_event

\* (self.log_file != None) and (self.log_file.closed == False)
LogOpen_Never(lf) == FALSE

LogOpen(lf) == lf = "open"

\* log, lines 368-379, with self.log_file = lf: whether the text goes to
\* the textbox, whether it is written to the log file, and what is written.
log(txt, tags, where, lf) ==
    LET to_file == where # "screen" /\ LogOpen(lf)
    IN  [txt |-> txt, tags |-> tags, screen |-> where # "file", file |-> to_file,
         written |-> IF ~to_file THEN << >>
                     ELSE IF tags = "error" THEN <<"ERROR: ", txt>> ELSE <<txt>>]

\* self.logn(t(res), 'error'); self.logn(e, 'error')
ErrorLines(res, e, lf) ==
    <<log(res, "error", "both", lf), log(e, "error", "both", lf)>>

\* The run ends inside the try of line 571: the handler of the stage logs
\* the error and the finally clause of line 976 closes the log file.
Ends(res, e) ==
    /\ pc' = "done"
    /\ result' = res
    /\ exc' = e
    /\ errors' = IF res = "finished" THEN errors ELSE errors \o ErrorLines(res, e, log_file)
    /\ log_file' = "none"

\* Lines 436-579: the stop flag is cleared, the temporary directory is made,
\* the options are collected, the log file is opened and the CPU features
\* are written to it.  now counts from proc_start_time.
StartRun ==
    /\ pc = "idle"
    /\ cancel' = FALSE
    /\ now' = 0
    /\ tmpdir' = "exists"
    /\ last_run' = "none"
    /\ UNCHANGED <<audio_file, transcript_file, last_auto_save, files, diarization, n_par,
                   speaker, doc, seg_n, report, stages, failed, saves, hook_n>>
    /\ IF audio_file = ""
       THEN /\ pc' = "done"
            /\ result' = "err_no_audio_file"
            /\ exc' = ""
            /\ errors' = <<log("err_no_audio_file", "error", "both", log_file)>>
            /\ UNCHANGED <<log_file, my_transcript_file, speaker_detection, parallel, auto_save, start>>
       ELSE IF transcript_file = NoPath
       THEN /\ pc' = "done"
            /\ result' = "err_no_transcript_file"
            /\ exc' = ""
            /\ errors' = <<log("err_no_transcript_file", "error", "both", log_file)>>
            /\ UNCHANGED <<log_file, my_transcript_file, speaker_detection, parallel, auto_save, start>>
       ELSE /\ my_transcript_file' = transcript_file
            /\ \E time_ok \in BOOLEAN :
                   IF time_ok
                   THEN /\ start' \in StartOffsets
                        /\ speaker_detection' \in {"auto", "none"}
                        /\ parallel' \in BOOLEAN
                        /\ auto_save' \in BOOLEAN
                        /\ log_file' = "open"
                        /\ \E header_ok \in BOOLEAN :
                               IF header_ok
                               THEN /\ pc' = "u579"
                                    /\ result' = "running"
                                    /\ exc' = ""
                                    /\ errors' = << >>
                               ELSE \* lines 551-568 raise: the handler of line 980
                                    /\ pc' = "done"
                                    /\ result' = "err_options"
                                    /\ exc' = "header"
                                    /\ errors' = ErrorLines("err_options", "header", "open")
                   ELSE \* millisec raises err_invalid_time_string
                        /\ pc' = "done"
                        /\ result' = "err_options"
                        /\ exc' = "err_invalid_time_string"
                        /\ errors' = ErrorLines("err_options", "err_invalid_time_string",
                                                log_file)
                        /\ UNCHANGED <<log_file, speaker_detection, parallel, auto_save, start>>
    /\ UNCHANGED <<save_log, find_calls>>
    /\ UNCHANGED tmp_audio_file
    /\ UNCHANGED vars_helpers

\* Lines 581-614, left through the update of line 579: the audio conversion.
ConvertAudio ==
    /\ pc = "u579"
    /\ stages' = Append(stages, "Convert")
    /\ \E dt \in ConvertTicks : now' = now + dt
    /\ \E o \in ConvertOutcomes :
           /\ failed' = IF ConvertSucceeded(o) THEN failed ELSE failed \cup {"Convert"}
           /\ tmp_audio_file' = IF o.wrote THEN "exists" ELSE tmp_audio_file
           /\ IF ConvertRaises(o)
              THEN Ends("err_converting_audio", IF o.launched THEN "err_ffmpeg" ELSE "OSError")
              ELSE /\ pc' = "u430_1"
                   /\ UNCHANGED <<result, exc, log_file, errors>>
    /\ UNCHANGED <<cancel, audio_file, transcript_file, my_transcript_file, speaker_detection,
                   parallel, auto_save, start, diarization, n_par, speaker, doc, seg_n,
                   last_auto_save, files, report, saves, hook_n>>
    /\ UNCHANGED <<save_log, find_calls>>
    /\ UNCHANGED <<tmpdir, last_run>>
    /\ UNCHANGED vars_helpers

\* pipeline(self.tmp_audio_file, hook=hook) and
\* model.transcribe(self.tmp_audio_file, ...) read the converted audio
\* before anything else: without the file they can only raise.
Readable(f) == f = "exists"

\* Lines 723-729 or 777-781, left through the update of set_progress(1, 50).
AfterConvert ==
    /\ pc = "u430_1"
    /\ IF DetectsSpeakers(speaker_detection)
       THEN /\ stages' = Append(stages, "Diarize")
            /\ pc' = "u729"
       ELSE /\ stages' = Append(stages, "Transcribe")
            /\ pc' = "u781"
    /\ UNCHANGED <<cancel, audio_file, transcript_file, my_transcript_file, speaker_detection,
                   parallel, auto_save, start, log_file, diarization, n_par, speaker, doc,
                   seg_n, now, last_auto_save, files, result, exc, report, failed, saves,
                   hook_n>>
    /\ UNCHANGED <<save_log, find_calls>>
    /\ UNCHANGED <<tmpdir, tmp_audio_file, errors, last_run>>
    /\ UNCHANGED vars_helpers

\* Lines 730-731: pyannote is imported and set_progress(1, 100) updates.
LoadPyannote ==
    /\ pc = "u729"
    /\ pc' = "u430_1b"
    /\ UNCHANGED <<cancel, audio_file, transcript_file, my_transcript_file, speaker_detection,
                   parallel, auto_save, start, log_file, diarization, n_par, speaker, doc,
                   seg_n, now, last_auto_save, files, result, exc, report, stages, failed,
                   saves, hook_n>>
    /\ UNCHANGED <<save_log, find_calls>>
    /\ UNCHANGED <<tmpdir, tmp_audio_file, errors, last_run>>
    /\ UNCHANGED vars_helpers

\* Lines 733-753: the pipeline is loaded and applied to the audio file.
StartPipeline ==
    /\ pc = "u430_1b"
    /\ pc' = "pipeline"
    /\ UNCHANGED <<cancel, audio_file, transcript_file, my_transcript_file, speaker_detection,
                   parallel, auto_save, start, log_file, diarization, n_par, speaker, doc,
                   seg_n, now, last_auto_save, files, result, exc, report, stages, failed,
                   saves, hook_n>>
    /\ UNCHANGED <<save_log, find_calls>>
    /\ UNCHANGED <<tmpdir, tmp_audio_file, errors, last_run>>
    /\ UNCHANGED vars_helpers

\* if self.parent.cancel == True: raise Exception(t('err_user_cancelation'))
HookAborts_Never(c) == FALSE

HookAborts(c) == c = TRUE

\* SimpleProgressHook.__call__, lines 693-717, up to the update of
\* set_progress(2, ...); its exception leaves the pipeline and is caught at
\* line 769.
HookCall ==
    /\ pc = "pipeline"
    /\ Readable(tmp_audio_file)
    /\ hook_n < MaxHooks
    /\ hook_n' = hook_n + 1
    /\ IF HookAborts(cancel)
       THEN Ends("err_identifying_speakers", "err_user_cancelation")
       ELSE /\ pc' = "u430_2"
            /\ UNCHANGED <<result, exc, log_file, errors>>
    /\ UNCHANGED <<cancel, audio_file, transcript_file, my_transcript_file, speaker_detection,
                   parallel, auto_save, start, diarization, n_par, speaker, doc, seg_n, now,
                   last_auto_save, files, report, stages, failed, saves>>
    /\ UNCHANGED <<save_log, find_calls>>
    /\ UNCHANGED <<tmpdir, tmp_audio_file, last_run>>
    /\ UNCHANGED vars_helpers

\* Line 719, reached through the update of set_progress(2, ...).
HookUpdate ==
    /\ pc = "u430_2"
    /\ pc' = "u719"
    /\ UNCHANGED <<cancel, audio_file, transcript_file, my_transcript_file, speaker_detection,
                   parallel, auto_save, start, log_file, diarization, n_par, speaker, doc,
                   seg_n, now, last_auto_save, files, result, exc, report, stages, failed,
                   saves, hook_n>>
    /\ UNCHANGED <<save_log, find_calls>>
    /\ UNCHANGED <<tmpdir, tmp_audio_file, errors, last_run>>
    /\ UNCHANGED vars_helpers

\* The hook returns to the pipeline.
HookReturn ==
    /\ pc = "u719"
    /\ pc' = "pipeline"
    /\ UNCHANGED <<cancel, audio_file, transcript_file, my_transcript_file, speaker_detection,
                   parallel, auto_save, start, log_file, diarization, n_par, speaker, doc,
                   seg_n, now, last_auto_save, files, result, exc, report, stages, failed,
                   saves, hook_n>>
    /\ UNCHANGED <<save_log, find_calls>>
    /\ UNCHANGED <<tmpdir, tmp_audio_file, errors, last_run>>
    /\ UNCHANGED vars_helpers

\* Lines 753-781: the pipeline returns the diarization, its tracks are
\* logged and the transcription is announced.
PipelineReturns ==
    /\ pc = "pipeline"
    /\ Readable(tmp_audio_file)
    /\ \E d \in PipelineDiarizations : diarization' = [bound |-> TRUE, tracks |-> d]
    /\ stages' = Append(stages, "Transcribe")
    /\ pc' = "u781"
    /\ UNCHANGED <<cancel, audio_file, transcript_file, my_transcript_file, speaker_detection,
                   parallel, auto_save, start, log_file, n_par, speaker, doc, seg_n, now,
                   last_auto_save, files, result, exc, report, failed, saves, hook_n>>
    /\ UNCHANGED <<save_log, find_calls>>
    /\ UNCHANGED <<tmpdir, tmp_audio_file, errors, last_run>>
    /\ UNCHANGED vars_helpers

\* Lines 769-772: the engine raises.
PipelineRaises ==
    /\ pc = "pipeline"
    /\ failed' = failed \cup {"Diarize"}
    /\ Ends("err_identifying_speakers", "engine")
    /\ UNCHANGED <<cancel, audio_file, transcript_file, my_transcript_file, speaker_detection,
                   parallel, auto_save, start, diarization, n_par, speaker, doc, seg_n, now,
                   last_auto_save, files, report, stages, saves, hook_n>>
    /\ UNCHANGED <<save_log, find_calls>>
    /\ UNCHANGED <<tmpdir, tmp_audio_file, last_run>>
    /\ UNCHANGED vars_helpers

\* Lines 813-891, left through the update of line 781: the document gets
\* its header and its first paragraph, the model is loaded and transcribe
\* returns the generator of the segments.
PrepareTranscript ==
    /\ pc = "u781"
    /\ n_par' = 1
    /\ speaker' = EmptyStr
    /\ doc' = << >>
    /\ last_auto_save' = now
    /\ pc' = "segments"
    /\ UNCHANGED <<cancel, audio_file, transcript_file, my_transcript_file, speaker_detection,
                   parallel, auto_save, start, log_file, diarization, seg_n, now, files,
                   result, exc, report, stages, failed, saves, hook_n>>
    /\ UNCHANGED <<save_log, find_calls>>
    /\ UNCHANGED <<tmpdir, tmp_audio_file, errors, last_run>>
    /\ UNCHANGED vars_helpers

\* Lines 893-894: the generator yields the next segment and self.update() runs.
NextSegment ==
    /\ pc = "segments"
    /\ Readable(tmp_audio_file)
    /\ seg_n < MaxSegs
    /\ seg_n' = seg_n + 1
    /\ \E dt \in Ticks : now' = now + dt
    /\ pc' = "u894"
    /\ UNCHANGED <<cancel, audio_file, transcript_file, my_transcript_file, speaker_detection,
                   parallel, auto_save, start, log_file, diarization, n_par, speaker, doc,
                   last_auto_save, files, result, exc, report, stages, failed, saves, hook_n>>
    /\ UNCHANGED <<save_log, find_calls>>
    /\ UNCHANGED <<tmpdir, tmp_audio_file, errors, last_run>>
    /\ UNCHANGED vars_helpers

\* Lines 970-974: the model or the generator raises.
TranscribeRaises ==
    /\ pc = "segments"
    /\ failed' = failed \cup {"Transcribe"}
    /\ Ends("err_transcription", "engine")
    /\ UNCHANGED <<cancel, audio_file, transcript_file, my_transcript_file, speaker_detection,
                   parallel, auto_save, start, diarization, n_par, speaker, doc, seg_n, now,
                   last_auto_save, files, report, stages, saves, hook_n>>
    /\ UNCHANGED <<save_log, find_calls>>
    /\ UNCHANGED <<tmpdir, tmp_audio_file, last_run>>
    /\ UNCHANGED vars_helpers

\* Lines 913-927: the speaker of the segment and what it does to the
\* paragraphs.  The result gives the new speaker, the new number of
\* paragraphs and what is put before the text of the segment.
Colon == <<":">>

Blank == <<" ">>

Slashes == <<"/", "/">>

\* if (speaker != spkr) & (spkr != ''):
SpeakerChanged_AnyLabel(spk, spkr) == spkr # EmptyStr

SpeakerChanged(spk, spkr) == (spk # spkr) /\ (spkr # EmptyStr)

\* spkr[:2] == '//', speaker[:2] == '//'
IsParallelMark_Never(s) == FALSE

IsParallelMark(s) == StrTo(s, 2) = Slashes

\* p = d.createElement('p'); main_body.appendChild(p)
NewParagraph_None(np) == np

NewParagraph(np) == np + 1

\* asked tells whether find_speaker was called.
SpeakerChange(sd, par, diar, spk, np, from, to) ==
    LET same == [speaker |-> spk, n_par |-> np, prefix |-> EmptyStr, asked |-> FALSE]
    IN  IF ~DetectsSpeakers(sd) THEN same
        ELSE LET spkr == find_speaker(par, diar, from, to)
             IN  IF ~SpeakerChanged(spk, spkr) THEN [same EXCEPT !.asked = TRUE]
                 ELSE IF IsParallelMark(spkr)
                 THEN [speaker |-> spkr, n_par |-> np, prefix |-> Blank \o spkr \o Colon,
                       asked |-> TRUE]
                 ELSE IF IsParallelMark(spk)
                 THEN [speaker |-> spkr, n_par |-> np, prefix |-> Slashes, asked |-> TRUE]
                 ELSE [speaker |-> spkr, n_par |-> NewParagraph(np),
                       prefix |-> spkr \o Colon, asked |-> TRUE]

\* Lines 938-943: the <a> element of segment i, appended to paragraph p.
\* href is f'ts_{orig_audio_start}_{orig_audio_end}'.
Bookmark_NoOffset(offset, i, p, prefix) ==
    [seg |-> i, p |-> p, prefix |-> prefix,
     href |-> <<"ts", Seg(i).start, Seg(i).end>>]

Bookmark(offset, i, p, prefix) ==
    [seg |-> i, p |-> p, prefix |-> prefix,
     href |-> <<"ts", offset + Seg(i).start, offset + Seg(i).end>>]

\* if self.auto_save == True: save_doc() before the cancellation is raised
CancelSaves_Never(as) == FALSE

CancelSaves_Always(as) == TRUE

CancelSaves(as) == as = TRUE

\* if self.cancel == True: (line 896, the check of the segment loop)
LoopCancels_Never(c) == FALSE

LoopCancels(c) == c = TRUE

\* Lines 896-903, left through the update of line 894: the stop flag is
\* set, the document is saved when auto save is on and the run ends.
CancelTranscription ==
    /\ pc = "u894"
    /\ LoopCancels(cancel)
    /\ IF CancelSaves(auto_save)
       THEN \E ok1 \in FirstOpen(my_transcript_file), ok2 \in BOOLEAN :
               LET r == save_doc(my_transcript_file, files, doc, n_par, ok1, ok2)
               IN  /\ my_transcript_file' = r.my
                   /\ files' = r.files
                   /\ last_auto_save' = IF r.wrote THEN now ELSE last_auto_save
                   /\ saves' = Saved(r, "cancel", doc)
                   /\ save_log' = Called(r, "cancel", my_transcript_file)
                   /\ Ends("err_transcription",
                           IF r.raised # "" THEN r.raised ELSE "err_user_cancelation")
       ELSE /\ Ends("err_transcription", "err_user_cancelation")
            /\ UNCHANGED <<my_transcript_file, files, last_auto_save, saves, save_log>>
    /\ UNCHANGED <<cancel, audio_file, transcript_file, speaker_detection, parallel,
                   auto_save, start, diarization, n_par, speaker, doc, seg_n, now, report,
                   stages, failed, hook_n>>
    /\ UNCHANGED find_calls
    /\ UNCHANGED <<tmpdir, tmp_audio_file, last_run>>
    /\ UNCHANGED vars_helpers

\* Lines 905-952, left through the update of line 894 with the stop flag
\* clear: the segment is rendered and the document saved when due.
RenderSegment ==
    /\ pc = "u894"
    /\ ~LoopCancels(cancel)
    /\ LET sc == SpeakerChange(speaker_detection, parallel, diarization.tracks, speaker,
                               n_par, Seg(seg_n).start, Seg(seg_n).end)
           d == Append(doc, Bookmark(start, seg_n, sc.n_par, sc.prefix))
       IN  /\ speaker' = sc.speaker
           /\ n_par' = sc.n_par
           /\ find_calls' = IF sc.asked THEN Append(find_calls, seg_n) ELSE find_calls
           /\ doc' = d
           /\ IF auto_save = TRUE /\ AutoSaveDue(now, last_auto_save)
              THEN \E ok1 \in FirstOpen(my_transcript_file), ok2 \in BOOLEAN :
                      LET r == save_doc(my_transcript_file, files, d, sc.n_par, ok1, ok2)
                      IN  /\ my_transcript_file' = r.my
                          /\ files' = r.files
                          /\ last_auto_save' = IF r.wrote THEN now ELSE last_auto_save
                          /\ saves' = Saved(r, "auto", d)
                          /\ save_log' = Called(r, "auto", my_transcript_file)
                          /\ IF r.raised # ""
                             THEN Ends("err_transcription", r.raised)
                             ELSE /\ pc' = "u952"
                                  /\ UNCHANGED <<result, exc, log_file, errors>>
              ELSE /\ pc' = "u952"
                   /\ UNCHANGED <<my_transcript_file, files, last_auto_save, saves, save_log,
                                  result, exc, log_file, errors>>
    /\ UNCHANGED <<cancel, audio_file, transcript_file, speaker_detection, parallel,
                   auto_save, start, diarization, seg_n, now, report, stages, failed, hook_n>>
    /\ UNCHANGED <<tmpdir, tmp_audio_file, last_run>>
    /\ UNCHANGED vars_helpers

\* Lines 954-955, left through the update of line 952.
SegmentProgress ==
    /\ pc = "u952"
    /\ pc' = "u430_3"
    /\ UNCHANGED <<cancel, audio_file, transcript_file, my_transcript_file, speaker_detection,
                   parallel, auto_save, start, log_file, diarization, n_par, speaker, doc,
                   seg_n, now, last_auto_save, files, result, exc, report, stages, failed,
                   saves, hook_n>>
    /\ UNCHANGED <<save_log, find_calls>>
    /\ UNCHANGED <<tmpdir, tmp_audio_file, errors, last_run>>
    /\ UNCHANGED vars_helpers

\* The loop asks the generator for the next segment, left through the
\* update of set_progress(3, ...).
LoopBack ==
    /\ pc = "u430_3"
    /\ pc' = "segments"
    /\ UNCHANGED <<cancel, audio_file, transcript_file, my_transcript_file, speaker_detection,
                   parallel, auto_save, start, log_file, diarization, n_par, speaker, doc,
                   seg_n, now, last_auto_save, files, result, exc, report, stages, failed,
                   saves, hook_n>>
    /\ UNCHANGED <<save_log, find_calls>>
    /\ UNCHANGED <<tmpdir, tmp_audio_file, errors, last_run>>
    /\ UNCHANGED vars_helpers

\* Lines 957-968: the generator is exhausted, the document is saved and
\* the run reports where.
FinishTranscript ==
    /\ pc = "segments"
    /\ Readable(tmp_audio_file)
    /\ \E ok1 \in FirstOpen(my_transcript_file), ok2 \in BOOLEAN :
           LET r == save_doc(my_transcript_file, files, doc, n_par, ok1, ok2)
           IN  /\ my_transcript_file' = r.my
               /\ files' = r.files
               /\ last_auto_save' = IF r.wrote THEN now ELSE last_auto_save
               /\ saves' = Saved(r, "final", doc)
               /\ save_log' = Called(r, "final", my_transcript_file)
               /\ IF r.raised # ""
                  THEN /\ Ends("err_transcription", r.raised)
                       /\ report' = report
                  ELSE /\ Ends("finished", "")
                       /\ report' = IF transcript_file # r.my THEN "rescue_saving" ELSE "saved"
    /\ UNCHANGED <<cancel, audio_file, transcript_file, speaker_detection, parallel,
                   auto_save, start, diarization, n_par, speaker, doc, seg_n, now, stages,
                   failed, hook_n>>
    /\ UNCHANGED find_calls
    /\ UNCHANGED <<tmpdir, tmp_audio_file, last_run>>
    /\ UNCHANGED vars_helpers

\* tmpdir = TemporaryDirectory('noScribe') is a local that is never cleaned
\* up by a statement: when button_start_event returns, the last reference
\* to the object goes and its finalizer removes the directory with all it
\* holds ("Implicitly cleaning up").
Finalized_Kept(x) == x

Finalized(x) == "none"

\* Lines 985-991: the outer finally clause brings the start button back and
\* button_start_event returns, which ends the life of its locals and of
\* what the run has recorded.  The attributes that the next run assigns
\* before it reads them (lines 464-523, 854) are dead and get their first
\* values.  The disk is the user's between two runs.
Return ==
    /\ pc = "done"
    /\ pc' = "idle"
    /\ diarization' = Unbound
    /\ n_par' = 0
    /\ speaker' = EmptyStr
    /\ doc' = << >>
    /\ seg_n' = 0
    /\ result' = "none"
    /\ exc' = ""
    /\ report' = "none"
    /\ stages' = << >>
    /\ failed' = {}
    /\ saves' = << >>
    /\ hook_n' = 0
    /\ save_log' = << >>
    /\ find_calls' = << >>
    /\ files' = InitialDisk
    /\ my_transcript_file' = NoPath
    /\ speaker_detection' = "none"
    /\ parallel' = FALSE
    /\ auto_save' = FALSE
    /\ start' = 0
    /\ now' = 0
    /\ last_auto_save' = 0
    /\ UNCHANGED <<cancel, audio_file, transcript_file, log_file>>
    /\ errors' = << >>
    /\ last_run' = result
    /\ tmpdir' = Finalized(tmpdir)
    /\ tmp_audio_file' = Finalized(tmp_audio_file)
    /\ UNCHANGED vars_helpers

\* ------------------------------------------------------------ specification

\* The application after App.__init__.
InitRun ==
    /\ pc = "idle"
    /\ cancel = FALSE
    /\ audio_file = ""
    /\ transcript_file = NoPath
    /\ my_transcript_file = NoPath
    /\ speaker_detection = "none"
    /\ parallel = FALSE
    /\ auto_save = FALSE
    /\ start = 0
    /\ log_file = "none"
    /\ diarization = Unbound
    /\ n_par = 0
    /\ speaker = EmptyStr
    /\ doc = << >>
    /\ seg_n = 0
    /\ now = 0
    /\ last_auto_save = 0
    /\ files = InitialDisk
    /\ result = "none"
    /\ exc = ""
    /\ report = "none"
    /\ stages = << >>
    /\ failed = {}
    /\ saves = << >>
    /\ hook_n = 0
    /\ save_log = << >>
    /\ find_calls = << >>
    /\ tmpdir = "none"
    /\ tmp_audio_file = "none"
    /\ errors = << >>
    /\ last_run = "none"

\* No helper function is run on its own.
FSOff ==
    /\ fs_pc = "off"
    /\ fs_parallel = FALSE
    /\ fs_diar = << >>
    /\ fs_start = 0
    /\ fs_end = 0
    /\ fs_scan = ScanInit
    /\ fs_ret = EmptyStr

OLOff ==
    /\ ol_pc = "off"
    /\ ol_ss = 0
    /\ ol_se = 0
    /\ ol_ts = 0
    /\ ol_te = 0
    /\ ol_ret = NoOverlap

SPOff ==
    /\ sp_pc = "off"
    /\ sp_step = 0
    /\ sp_value = 0
    /\ sp_sd = "none"
    /\ sp_bar = Whole(0)

Init ==
    /\ InitRun
    /\ FSOff
    /\ OLOff
    /\ SPOff

Next ==
    \/ button_stop_event
    \/ button_transcript_file_event
    \/ button_audio_file_event
    \/ StartRun
    \/ ConvertAudio
    \/ AfterConvert
    \/ LoadPyannote
    \/ StartPipeline
    \/ HookCall
    \/ HookUpdate
    \/ HookReturn
    \/ PipelineReturns
    \/ PipelineRaises
    \/ PrepareTranscript
    \/ NextSegment
    \/ TranscribeRaises
    \/ CancelTranscription
    \/ RenderSegment
    \/ SegmentProgress
    \/ LoopBack
    \/ FinishTranscript
    \/ Return

Spec == Init /\ [][Next]_vars

\* ------------------------------------------- find_speaker as a state machine

Intervals ==
    {[start |-> s, end |-> e, label |-> l] :
        s \in 0..MaxT, e \in 0..MaxT, l \in RawLabels}

\* Speaker segments have a positive duration.
ProperIntervals == {iv \in Intervals : iv.start < iv.end}

\* itertracks yields the intervals in ascending order of their start.
OrderedByStart(d) == \A i \in 1..(Len(d) - 1) : d[i].start <= d[i + 1].start

RECURSIVE SeqsUpTo(_, _)
SeqsUpTo(S, n) ==
    IF n = 0 THEN {<< >>}
    ELSE LET shorter == SeqsUpTo(S, n - 1)
         IN  shorter \cup {Append(q, x) : q \in {r \in shorter : Len(r) = n - 1}, x \in S}

DiarizationInputs == {d \in SeqsUpTo(ProperIntervals, MaxIntervals) : OrderedByStart(d)}

InitFS ==
    /\ InitRun
    /\ OLOff
    /\ SPOff
    /\ fs_pc = "call"
    /\ fs_parallel \in BOOLEAN
    /\ fs_diar \in DiarizationInputs
    /\ fs_start \in 0..MaxT
    /\ fs_end \in fs_start..MaxT
    /\ fs_scan = ScanInit
    /\ fs_ret = EmptyStr

CallFindSpeaker ==
    /\ fs_pc = "call"
    /\ fs_pc' = "returned"
    /\ fs_scan' = Scan(fs_diar, fs_start, fs_end)
    /\ fs_ret' = find_speaker(fs_parallel, fs_diar, fs_start, fs_end)
    /\ UNCHANGED <<fs_parallel, fs_diar, fs_start, fs_end>>
    /\ UNCHANGED <<vars_ol, vars_sp, vars_run>>

NextFS == CallFindSpeaker

SpecFS == InitFS /\ [][NextFS]_vars

\* -------------------------------------------- overlap_len as a state machine

\* The times given to overlap_len, in milliseconds.
OLTimes == 0..MaxT \cup {1000, 1500, 2000, 2500}

InitOL ==
    /\ InitRun
    /\ FSOff
    /\ SPOff
    /\ ol_pc = "call"
    /\ ol_ss \in OLTimes
    /\ ol_se \in {e \in OLTimes : ol_ss <= e}
    /\ ol_ts \in OLTimes
    /\ ol_te \in {e \in OLTimes : ol_ts <= e}
    /\ ol_ret = NoOverlap

CallOverlapLen ==
    /\ ol_pc = "call"
    /\ ol_pc' = "returned"
    /\ ol_ret' = overlap_len(ol_ss, ol_se, ol_ts, ol_te)
    /\ UNCHANGED <<ol_ss, ol_se, ol_ts, ol_te>>
    /\ UNCHANGED <<vars_fs, vars_sp, vars_run>>

NextOL == CallOverlapLen

SpecOL == InitOL /\ [][NextOL]_vars

\* ------------------------------------------- set_progress as a state machine

\* The steps are 1 (conversion), 2 (speaker identification) and 3
\* (transcription); any other step empties the bar.
Steps == 0..3

InitSP ==
    /\ InitRun
    /\ FSOff
    /\ OLOff
    /\ sp_pc = "call"
    /\ sp_step \in Steps
    /\ sp_value \in 0..MaxValue
    /\ sp_sd \in {"auto", "none"}
    /\ sp_bar = Whole(0)

CallSetProgress ==
    /\ sp_pc = "call"
    /\ sp_pc' = "returned"
    /\ sp_bar' = set_progress(sp_step, sp_value, sp_sd)
    /\ UNCHANGED <<sp_step, sp_value, sp_sd>>
    /\ UNCHANGED <<vars_fs, vars_ol, vars_run>>

NextSP == CallSetProgress

SpecSP == InitSP /\ [][NextSP]_vars

\* ------------------------------------------------- claims about cancellation

\* The run has ended and button_start_event is about to return.
Done == pc = "done"

\* The run was ended by the cancellation raised in the segment loop.
CancelledInTranscription ==
    Done /\ result = "err_transcription" /\ exc = "err_user_cancelation"

\* The segments whose runs a document holds, in document order.
SegsOf(d) == [i \in 1..Len(d) |-> d[i].seg]

UpTo(n) == [i \in 1..n |-> i]

\* C1: when the stop flag is seen at the checkpoint of a segment and auto
\* save is on, the run ends as cancelled only after a save, and the file
\* that save wrote holds the runs of exactly the segments before that one,
\* in order.
C1_CancelSaveHoldsProcessed ==
    (CancelledInTranscription /\ auto_save) =>
        /\ saves # << >>
        /\ LET w == saves[Len(saves)]
           IN  /\ w.by = "cancel"
               /\ w.path = my_transcript_file
               /\ SegsOf(w.doc) = UpTo(seg_n - 1)
               /\ files[w.path] = Written(w.doc, n_par)

\* The flag is seen at the third segment: two runs are saved.
C1_Witness ==
    /\ CancelledInTranscription
    /\ auto_save
    /\ seg_n = 3
    /\ SegsOf(files[my_transcript_file].doc) = <<1, 2>>

\* C2: when the stop flag is seen at the checkpoint of a segment and auto
\* save is off, the run ends as cancelled and nothing is written to any
\* output path.
C2_NoWriteWithoutAutosave ==
    (CancelledInTranscription /\ ~auto_save) =>
        /\ saves = << >>
        /\ files = InitialDisk

\* The flag is seen at the second segment, after one was rendered.
C2_Witness ==
    /\ CancelledInTranscription
    /\ ~auto_save
    /\ seg_n = 2
    /\ Len(doc) = 1

\* C3: a run in which a stop request was accepted never ends as a
\* successfully finished transcription.  It is stated for the runs that ask
\* the least of the claim: no stage failed and the transcriber emitted
\* segments, so that the segment loop did have checkpoints.
C3_StopNeverFinishes ==
    (Done /\ cancel = TRUE /\ failed = {} /\ seg_n > 0) => result # "finished"

\* C4: a call of the progress hook with the stop flag set ends the run at
\* once as cancelled: no diarization is bound, the transcription stage has
\* not started and no output file is written.
C4_HookCheckpoint ==
    [][(hook_n' = hook_n + 1 /\ cancel = TRUE) =>
          /\ pc' = "done"
          /\ result' = "err_identifying_speakers"
          /\ exc' = "err_user_cancelation"
          /\ ~diarization'.bound
          /\ "Transcribe" \notin {stages'[i] : i \in DOMAIN stages'}
          /\ saves' = << >>
          /\ files' = InitialDisk]_vars

\* The second call of the hook finds the flag set after the first went through.
C4_Witness ==
    /\ Done
    /\ result = "err_identifying_speakers"
    /\ exc = "err_user_cancelation"
    /\ hook_n = 2

\* C5: the run starts with the stop flag clear, and once the flag is set
\* it stays set until the run has ended.
C5_FlagOnlyRises ==
    [][/\ (pc = "idle" /\ pc' # "idle") => cancel' = FALSE
       /\ (pc # "idle" /\ cancel = TRUE) => cancel' = TRUE]_vars

\* The flag was set while segments are transcribed and the run goes on.
C5_Witness ==
    /\ pc = "segments"
    /\ seg_n >= 1
    /\ cancel = TRUE

\* C6: the stages start in the order Convert, Diarize (with speaker
\* detection only), Transcribe, none twice, and a failed stage is the last
\* one of its run.
ExpectedStages ==
    IF speaker_detection = "auto"
    THEN <<"Convert", "Diarize", "Transcribe">>
    ELSE <<"Convert", "Transcribe">>

IsPrefix(a, b) == Len(a) <= Len(b) /\ \A i \in 1..Len(a) : a[i] = b[i]

C6_StagesInOrder ==
    /\ IsPrefix(stages, ExpectedStages)
    /\ failed # {} => (Done /\ failed = {stages[Len(stages)]})


\* ------------------------------------------------- claims about find_speaker

Ratio(iv) == overlap_len(iv.start, iv.end, fs_start, fs_end)

Dur(iv) == iv.end - iv.start

\* The positions of the intervals that reach the overlap threshold.
QualIdx == {i \in DOMAIN fs_diar : RatGE(Ratio(fs_diar[i]), overlap_threshold)}

\* The positions of the intervals with a positive ratio.
PosIdx == {i \in DOMAIN fs_diar : RatGT(Ratio(fs_diar[i]), NoOverlap)}

\* The interval [ss, se] and the text segment [ts, te] share a point.
Touches(iv) == ~(fs_end < iv.start) /\ ~(fs_start > iv.end)

Returned == fs_pc = "returned"

\* C7: of two intervals of different speakers that both reach ratio >= 0.8
\* and have different durations (no other interval reaching it),
\* find_speaker selects the shorter one and flags the result parallel,
\* whichever of the two comes first in the sequence.
C7_ShorterWinsAndParallel ==
    Returned =>
        \A i, j \in QualIdx :
            (/\ QualIdx = {i, j}
             /\ fs_diar[i].label # fs_diar[j].label
             /\ Dur(fs_diar[i]) < Dur(fs_diar[j])) =>
                /\ fs_scan.spkr = ShortenLabel(fs_diar[i].label)
                /\ fs_scan.is_parallel

\* C8: when some interval reaches ratio >= 0.8, the label returned is that of
\* the shortest interval among those reaching it, the earliest one among
\* equal durations, with or without the parallel mark.
ShortestQualifying ==
    CHOOSE i \in QualIdx :
        \A j \in QualIdx :
            \/ Dur(fs_diar[i]) < Dur(fs_diar[j])
            \/ (Dur(fs_diar[i]) = Dur(fs_diar[j]) /\ i <= j)

C8_ShortestQualifyingWins ==
    (Returned /\ QualIdx # {}) =>
        LET want == ShortenLabel(fs_diar[ShortestQualifying].label)
        IN  /\ fs_scan.spkr = want
            /\ fs_ret \in {want, ParallelMark(want)}

\* A qualifying interval is followed by a shorter qualifying one of another
\* speaker, which is returned.
C8_Witness ==
    /\ Returned
    /\ Cardinality(QualIdx) >= 2
    /\ ShortestQualifying = 2
    /\ fs_diar[1].label # fs_diar[2].label
    /\ fs_ret = ShortenLabel(fs_diar[2].label)

\* C9: when no interval reaches ratio >= 0.8 and some interval has a positive
\* ratio, the label returned is that of the interval with the highest ratio,
\* the earliest one on ties, and it carries no parallel mark.
HighestRatio ==
    CHOOSE i \in PosIdx :
        \A j \in PosIdx :
            \/ RatGT(Ratio(fs_diar[i]), Ratio(fs_diar[j]))
            \/ (Ratio(fs_diar[i]) = Ratio(fs_diar[j]) /\ i <= j)

C9_HighestRatioWins ==
    (Returned /\ QualIdx = {} /\ PosIdx # {}) =>
        /\ fs_ret = ShortenLabel(fs_diar[HighestRatio].label)
        /\ ~fs_scan.is_parallel

\* Two speakers tie below the threshold and the earlier one is returned.
C9_Witness ==
    /\ Returned
    /\ fs_parallel
    /\ QualIdx = {}
    /\ PosIdx = {1, 2}
    /\ Ratio(fs_diar[1]) = Ratio(fs_diar[2])
    /\ fs_diar[1].label # fs_diar[2].label
    /\ fs_ret = ShortenLabel(fs_diar[1].label)

\* C10: when no interval of the sequence overlaps the text segment, the
\* returned label is the empty string.
C10_NoOverlapEmpty ==
    (Returned /\ \A i \in DOMAIN fs_diar : ~Touches(fs_diar[i])) =>
        fs_ret = EmptyStr

\* One interval lies before the text segment and one after it.
C10_Witness ==
    /\ Returned
    /\ Len(fs_diar) = 2
    /\ fs_diar[1].end < fs_start
    /\ fs_end < fs_diar[2].start
    /\ fs_ret = EmptyStr

\* -------------------------------------------------- claims about overlap_len

Min(a, b) == IF a < b THEN a ELSE b

Max(a, b) == IF a > b THEN a ELSE b

\* The text segment has a positive duration and overlap_len takes neither
\* of its two early returns.
OLOverlapCase ==
    /\ ol_pc = "returned"
    /\ ol_te > ol_ts
    /\ ~(ol_te < ol_ss)
    /\ ~(ol_ts > ol_se)

\* C11: for a text segment of positive duration that neither ends before
\* the speaker interval starts nor starts after it ends, overlap_len returns
\* (min(se, te) - max(ss, ts) + 1) / (te - ts); for ss = 1000, se = 2000,
\* ts = 1500, te = 2500 that is 501/1000.
C11_InclusiveRatio ==
    OLOverlapCase =>
        /\ RatEq(ol_ret, <<Min(ol_se, ol_te) - Max(ol_ss, ol_ts) + 1, ol_te - ol_ts>>)
        /\ (ol_ss = 1000 /\ ol_se = 2000 /\ ol_ts = 1500 /\ ol_te = 2500) =>
               ol_ret = <<501, 1000>>

\* overlap_len has returned for the pinned input.
C11_Witness ==
    /\ OLOverlapCase
    /\ ol_ss = 1000
    /\ ol_se = 2000
    /\ ol_ts = 1500
    /\ ol_te = 2500
    /\ RatEq(ol_ret, <<501, 1000>>)

\* ------------------------------------------------- claims about set_progress

\* The bar in percent.
Percent(bar) == RatMul(bar, Hundred)

SPReturned(step, value, sd) ==
    sp_pc = "returned" /\ sp_step = step /\ sp_value = value /\ sp_sd = sd

\* C12, as stated: overall(Convert, 50, false) = 2.5, overall(Diarize, 100,
\* true) = 50, overall(Transcribe, 50, true) = 75 and overall(Transcribe, 50,
\* false) = 52.25, in percent.
C12_PinnedProgress ==
    /\ SPReturned(1, 50, "none") => RatEq(Percent(sp_bar), <<25, 10>>)
    /\ SPReturned(2, 100, "auto") => RatEq(Percent(sp_bar), Whole(50))
    /\ SPReturned(3, 50, "auto") => RatEq(Percent(sp_bar), Whole(75))
    /\ SPReturned(3, 50, "none") => RatEq(Percent(sp_bar), <<5225, 100>>)

\* C12, amended: the same with overall(Transcribe, 50, false) = 52.5, which
\* is 5 + 50 * 0.95.
C12_AmendedPinnedProgress ==
    /\ SPReturned(1, 50, "none") => RatEq(Percent(sp_bar), <<25, 10>>)
    /\ SPReturned(2, 100, "auto") => RatEq(Percent(sp_bar), Whole(50))
    /\ SPReturned(3, 50, "auto") => RatEq(Percent(sp_bar), Whole(75))
    /\ SPReturned(3, 50, "none") => RatEq(Percent(sp_bar), <<525, 10>>)

\* Half of the transcription is done in a run without speaker detection.
C12_Witness ==
    /\ SPReturned(3, 50, "none")
    /\ RatEq(Percent(sp_bar), <<525, 10>>)

\* The overall percentage of the three stages, as the formulas give it.
Overall(step, value, sd) ==
    IF step = 1 THEN RatMul(Whole(value), <<5, 100>>)
    ELSE IF step = 2 THEN RatAdd(Whole(5), RatMul(Whole(value), <<45, 100>>))
    ELSE IF sd = "auto" THEN RatAdd(Whole(50), RatMul(Whole(value), <<50, 100>>))
    ELSE RatAdd(Whole(5), RatMul(Whole(value), <<95, 100>>))

\* C13: for each of the three stages, every local percentage in 0..100 and
\* either setting of speaker detection, set_progress reports local * 0.05
\* for Convert, 5 + local * 0.45 for Diarize, and for Transcribe
\* 50 + local * 0.50 with speaker detection and 5 + local * 0.95 without;
\* the report lies in 0..100.
C13_StageFormulas ==
    (sp_pc = "returned" /\ sp_step \in 1..3 /\ sp_value <= 100) =>
        /\ RatEq(Percent(sp_bar), Overall(sp_step, sp_value, sp_sd))
        /\ RatGE(Percent(sp_bar), Whole(0))
        /\ RatGE(Hundred, Percent(sp_bar))

\* The transcription is complete in a run with speaker detection.
C13_Witness ==
    /\ SPReturned(3, 100, "auto")
    /\ RatEq(Percent(sp_bar), Hundred)

\* ------------------------------------------------------ claims about saving

\* The calls of save_doc that wrote the alternative file.
Rescues == {i \in DOMAIN save_log : save_log[i].rescued}

\* C14: within one call of save_doc, when the write to
\* self.my_transcript_file fails, the alternative name (the stem with "_1")
\* is tried exactly once; when that name exists already, or its write
\* fails too, the call raises, the run ends with that error and nothing
\* more is written.
C14_RescueOnce ==
    \A i \in DOMAIN save_log :
        LET s == save_log[i]
        IN  /\ Len(s.opens) \in {1, 2}
            /\ s.opens[1].path = s.path
            /\ s.opens[1].ok => (Len(s.opens) = 1 /\ s.raised = "")
            /\ ~s.opens[1].ok =>
                   IF s.alt_exists
                   THEN Len(s.opens) = 1 /\ s.raised # ""
                   ELSE /\ Len(s.opens) = 2
                        /\ s.opens[2].path = AltPath(s.path)
                        /\ s.opens[2].ok <=> s.raised = ""
            /\ s.raised # "" =>
                   /\ i = Len(save_log)
                   /\ Done
                   /\ result = "err_transcription"
                   /\ exc = s.raised

\* An auto save was rescued to "u_1.html"; the next save fails on it and on
\* "u_1_1.html".
C14_Witness ==
    /\ Done
    /\ Len(save_log) = 2
    /\ save_log[1].rescued
    /\ Len(save_log[2].opens) = 2
    /\ ~save_log[2].opens[2].ok
    /\ exc = "OSError"

C16_AutosaveCadence ==
    [][/\ (pc = "u781" /\ pc' = "segments") => last_auto_save' = now
       /\ (pc \notin {"idle", "done"} /\ pc' # "segments") =>
              last_auto_save' = IF Len(saves') > Len(saves) THEN now ELSE last_auto_save
       /\ (pc = "u894" /\ pc' # "u894" /\ cancel # TRUE) =>
              /\ Len(save_log') > Len(save_log)
                     <=> (auto_save /\ now - last_auto_save > AutoSaveSeconds)
              /\ Len(save_log') > Len(save_log) =>
                     /\ save_log'[Len(save_log')].by = "auto"
                     /\ Len(saves') > Len(saves) => saves'[Len(saves')].doc = doc'
       /\ (pc \notin {"idle", "done"} /\ ~auto_save) =>
              \A i \in DOMAIN save_log' : save_log'[i].by = "final"]_vars

\* The first segment took 20 seconds and was not saved, the second one was.
C16_Witness ==
    /\ pc = "u952"
    /\ auto_save
    /\ seg_n = 2
    /\ Len(saves) = 1
    /\ saves[1].by = "auto"
    /\ SegsOf(saves[1].doc) = <<1, 2>>
    /\ last_auto_save = now

\* -------------------------------------------------- claims about paragraphs

\* The label that segment i of this run resolves to ("" without speaker
\* detection).
Resolved(i) ==
    IF speaker_detection = "auto"
    THEN find_speaker(parallel, diarization.tracks, Seg(i).start, Seg(i).end)
    ELSE EmptyStr

\* The label carries the parallel mark.
IsMarked(l) == Len(l) >= 2 /\ l[1] = "/" /\ l[2] = "/"

\* The label without the parallel mark.
Plain(l) == IF IsMarked(l) THEN SubSeq(l, 3, Len(l)) ELSE l

\* A step that renders the segment in hand.
Renders == pc = "u894" /\ Len(doc') = Len(doc) + 1

Last(d) == d[Len(d)]

\* The step opens one paragraph, which begins with the label of the
\* segment in hand.
OpensParagraph ==
    /\ n_par' = n_par + 1
    /\ Last(doc').p = n_par'
    /\ Last(doc').prefix = Resolved(seg_n) \o Colon
    /\ speaker' = Resolved(seg_n)

\* The segment in hand has an unmarked label of another speaker.
SpeakerChanges ==
    /\ Resolved(seg_n) # EmptyStr
    /\ ~IsMarked(Resolved(seg_n))
    /\ Resolved(seg_n) # Plain(speaker)

\* C17, as stated: whenever a rendered segment resolves to a non-empty
\* label of another speaker than that of the preceding text, exactly one
\* paragraph is opened for it and begins with the new label, also when the
\* preceding text was parallel speech.
C17_ChangeOpensParagraph ==
    [][(Renders /\ SpeakerChanges) => OpensParagraph]_vars

\* C17, amended: the paragraph is opened when the preceding text was not
\* parallel speech; a change that directly follows parallel speech is
\* marked by "//" in the current paragraph.
C17_AmendedChangeOpensParagraph ==
    [][Renders =>
          /\ (SpeakerChanges /\ ~IsMarked(speaker)) => OpensParagraph
          /\ (Resolved(seg_n) # EmptyStr /\ ~IsMarked(Resolved(seg_n)) /\ IsMarked(speaker)) =>
                 /\ n_par' = n_par
                 /\ Last(doc').p = n_par
                 /\ Last(doc').prefix = Slashes
                 /\ speaker' = Resolved(seg_n)]_vars

\* The second segment is of a second speaker and begins the third paragraph.
C17_Witness ==
    /\ pc = "u952"
    /\ seg_n = 2
    /\ Resolved(1) = ShortenLabel(RawLabel(0))
    /\ Resolved(2) = ShortenLabel(RawLabel(1))
    /\ doc[1].p = 2
    /\ doc[2].p = 3
    /\ doc[2].prefix = ShortenLabel(RawLabel(1)) \o Colon

\* The paragraph that was the last one before segment i was rendered.
ParBefore(i) == IF i = 1 THEN 1 ELSE doc[i - 1].p

\* The segments i..j resolve to one label, or to none.
OneSpeaker(i, j) ==
    \E x \in {Resolved(k) : k \in i..j} : \A k \in i..j : Resolved(k) \in {x, EmptyStr}

\* C18: over consecutive segments that all resolve to the same label, or
\* to the empty label, at most one paragraph is opened.
C18_OneParagraphPerSpeaker ==
    \A i, j \in DOMAIN doc :
        (i <= j /\ OneSpeaker(i, j)) => doc[j].p - ParBefore(i) <= 1

\* A speaker pauses: the segments resolve to S00, nothing, S00 and lie in
\* the one paragraph the first of them opened.
C18_Witness ==
    /\ Len(doc) = 3
    /\ Resolved(1) = ShortenLabel(RawLabel(0))
    /\ Resolved(2) = EmptyStr
    /\ Resolved(3) = ShortenLabel(RawLabel(0))
    /\ doc[1].p = 2
    /\ doc[3].p = 2

\* C19: no paragraph is opened for a segment whose label is marked
\* parallel, nor for one that follows parallel speech: the beginning of
\* parallel speech is rendered as " //Sxx:", its continuation bare and its
\* end as "//", all in the current paragraph.
C19_ParallelInline ==
    [][(Renders /\ (IsMarked(Resolved(seg_n)) \/ IsMarked(speaker))) =>
          /\ n_par' = n_par
          /\ Last(doc').p = n_par
          /\ Last(doc').prefix =
                 IF Resolved(seg_n) \in {speaker, EmptyStr} THEN EmptyStr
                 ELSE IF IsMarked(Resolved(seg_n)) THEN Blank \o Resolved(seg_n) \o Colon
                 ELSE Slashes]_vars

\* Parallel speech began with the second segment and ended with the third,
\* in the paragraph of the first.
C19_Witness ==
    /\ Len(doc) = 3
    /\ IsMarked(Resolved(2))
    /\ ~IsMarked(Resolved(3))
    /\ doc[2].prefix = Blank \o Resolved(2) \o Colon
    /\ doc[3].prefix = Slashes
    /\ doc[1].p = 2
    /\ doc[3].p = 2

\* C20: in a run without speaker detection the diarization stage does not
\* start, find_speaker is not called, the current speaker stays empty, no
\* run of text gets a label or a mark and all runs lie in the paragraph
\* opened before the first segment.
C20_NoSpeakerDetection ==
    (pc \notin {"idle", "u579"} /\ result \notin {"none", "err_no_audio_file",
                                                   "err_no_transcript_file", "err_options"}
        /\ speaker_detection # "auto") =>
        /\ \A i \in DOMAIN stages : stages[i] # "Diarize"
        /\ hook_n = 0
        /\ ~diarization.bound
        /\ find_calls = << >>
        /\ speaker = EmptyStr
        /\ n_par <= 1
        /\ \A i \in DOMAIN doc : doc[i].prefix = EmptyStr /\ doc[i].p = 1

\* Three segments were rendered without speaker detection.
C20_Witness ==
    /\ Done
    /\ result = "finished"
    /\ speaker_detection # "auto"
    /\ Len(doc) = 3
    /\ files[my_transcript_file] = Written(doc, 1)

\* ---------------------------------------------------- claims about bookmarks

\* C21: the step that processes a segment appends exactly one run to the
\* document, after the runs already there and leaving them as they were;
\* the run is the one of the segment in hand and its target is ts_<a>_<b>
\* with a and b the segment's own start and end plus self.start.  No other
\* step of the segment loop changes the document.
C21_OneRunPerSegment ==
    [][/\ (pc = "u894" /\ pc' # "u894" /\ cancel # TRUE) =>
              /\ Len(doc') = Len(doc) + 1
              /\ SubSeq(doc', 1, Len(doc)) = doc
              /\ Last(doc').seg = seg_n
              /\ Last(doc').href = <<"ts", Seg(seg_n).start + start, Seg(seg_n).end + start>>
       /\ (pc \in {"segments", "u952", "u430_3"} \/ (pc = "u894" /\ cancel = TRUE)) =>
              doc' = doc]_vars

\* The second segment, 10 to 20 ms of the clipped audio, was rendered in a
\* run that skips the first 500 ms.
C21_Witness ==
    /\ pc = "u952"
    /\ start = 500
    /\ SegsOf(doc) = <<1, 2>>
    /\ doc[1].href = <<"ts", 500, 510>>
    /\ doc[2].href = <<"ts", 510, 520>>

\* ------------------------------------------- claims about errors and release

\* The run has ended with an error.
EndedInError == Done /\ result # "finished"

\* The error came up in a stage, inside the try of line 571.
StageErrors == {"err_converting_audio", "err_identifying_speakers", "err_transcription"}

\* C22: every error that ends a run (input validation, conversion,
\* diarization, transcription, save failure, cancellation) is logged with
\* the error tag to the screen and to the log file before the run ends.
C22_ErrorsToBothSinks ==
    EndedInError =>
        /\ errors # << >>
        /\ \A i \in DOMAIN errors :
               errors[i].tags = "error" /\ errors[i].screen /\ errors[i].file

\* C22, amended: every error that ends a run is logged with the error tag
\* to the screen before the run ends; the errors of the stages (conversion,
\* diarization, transcription, save failure, cancellation) are written to
\* the log file as well, with the prefix "ERROR: ".
C22_AmendedErrorsToScreen ==
    EndedInError =>
        /\ errors # << >>
        /\ errors[1].txt = result
        /\ exc # "" => Last(errors).txt = exc
        /\ \A i \in DOMAIN errors :
               /\ errors[i].tags = "error"
               /\ errors[i].screen
               /\ result \in StageErrors =>
                      errors[i].file /\ errors[i].written = <<"ERROR: ", errors[i].txt>>

\* A run cancelled in the transcription has logged both lines to both sinks.
C22_Witness ==
    /\ Done
    /\ result = "err_transcription"
    /\ exc = "err_user_cancelation"
    /\ Len(errors) = 2
    /\ errors[1].file
    /\ errors[2].written = <<"ERROR: ", "err_user_cancelation">>
    /\ log_file = "none"

\* The run has opened its log file (line 548).
OpenedLog == Done /\ (stages # << >> \/ exc = "header")

\* C23: a run that has opened the log file has closed it when it ends:
\* after success, the failure of a stage, cancellation or an exception
\* raised anywhere after the file was opened.
C23_LogClosedAtEnd == OpenedLog => log_file = "none"

C25_ConvertOnlyOnZero ==
    "Convert" \in failed =>
        /\ Done
        /\ result = "err_converting_audio"
        /\ \A i \in DOMAIN stages : stages[i] \notin {"Diarize", "Transcribe"}

\* ------------------------------------------------ claims about parallel marks

\* What the scan of find_speaker finds for segment i of this run.
Scanned(i) == Scan(diarization.tracks, Seg(i).start, Seg(i).end)

\* C26: a label carries the parallel mark only in a run configured to
\* detect parallel speech.  In a run with that option off find_speaker
\* returns the plain label of the scan for every segment, the current
\* speaker is never a marked one and no run of text is put in a parallel
\* span or closes one.
C26_MarkOnlyWhenConfigured ==
    /\ IsMarked(speaker) => parallel = TRUE
    /\ \A i \in DOMAIN doc :
           (IsMarked(Resolved(i)) \/ doc[i].prefix = Slashes
               \/ StrTo(doc[i].prefix, 1) = Blank) => parallel = TRUE
    /\ (speaker_detection = "auto" /\ parallel # TRUE) =>
           \A i \in DOMAIN doc :
               /\ Resolved(i) = Scanned(i).spkr
               /\ doc[i].prefix \in {EmptyStr, Scanned(i).spkr \o Colon}

\* With the option off, the second segment had two fitting speakers and was
\* put in a paragraph of its own under the plain label of the shorter one.
C26_Witness ==
    /\ pc = "u952"
    /\ speaker_detection = "auto"
    /\ parallel = FALSE
    /\ seg_n = 2
    /\ Scanned(2).is_parallel
    /\ speaker = Scanned(2).spkr
    /\ doc[2].prefix = speaker \o Colon
    /\ doc[2].p = doc[1].p + 1

\* ------------------------------------------------ claims about the early exit

\* The loop of find_speaker without the break: an interval that signals the
\* early exit is skipped and the scan goes on to the end of the sequence.
ScanAllStep(st, iv) ==
    IF overlap_len(iv.start, iv.end, fs_start, fs_end) = EarlyExit THEN st
    ELSE ScanStep(st, iv, fs_start, fs_end)

RECURSIVE ScanAllTo(_)
ScanAllTo(n) == IF n = 0 THEN ScanInit ELSE ScanAllStep(ScanAllTo(n - 1), fs_diar[n])

ScanAll == ScanAllTo(Len(fs_diar))

\* C27: for intervals in ascending order of their start, the scan that
\* stops at the first interval that signals the early exit finds the same
\* label and the same parallel flag, and find_speaker returns the same, as
\* the scan that looks at every interval and skips those that signal it.
C27_EarlyExitIsSkipping ==
    Returned =>
        /\ fs_scan.spkr = ScanAll.spkr
        /\ fs_scan.is_parallel = ScanAll.is_parallel
        /\ fs_ret = IF fs_parallel /\ ScanAll.is_parallel
                    THEN ParallelMark(ScanAll.spkr) ELSE ScanAll.spkr

\* The scan took the first interval and stopped at the second one, which
\* begins after the end of the text segment.
C27_Witness ==
    /\ Returned
    /\ Len(fs_diar) = 2
    /\ fs_end < fs_diar[2].start
    /\ fs_scan.stopped
    /\ fs_scan.spkr = ShortenLabel(fs_diar[1].label)
    /\ ScanAll.spkr = fs_scan.spkr

\* ------------------------------------------------ claims about the parallel flag

\* C28: when find_speaker has flagged its result as parallel, there are two
\* intervals with different speaker labels that both reach ratio >= 0.8
\* for the text segment.
C28_ParallelMeansTwoSpeakers ==
    (Returned /\ fs_scan.is_parallel) =>
        \E i \in QualIdx, j \in QualIdx : fs_diar[i].label # fs_diar[j].label

\* ------------------------------------------------ claims about the ratio's range

\* overlap_len has returned a ratio, not the signal of the early exit.
OLRatioCase == ol_pc = "returned" /\ ol_ret # EarlyExit

\* The length of what the speaker interval and the text segment share.
Covered == Max(0, Min(ol_se, ol_te) - Max(ol_ss, ol_ts))

C30_NoRunAfterStop ==
    [][/\ (pc \notin {"idle", "done"} /\ cancel = TRUE) => doc' = doc
       /\ Len(doc') > Len(doc) => (pc = "u894" /\ cancel # TRUE /\ Last(doc').seg = seg_n)
       /\ (cancel # TRUE /\ cancel' = TRUE) => (pc \in UpdatePoints /\ pc' = pc)]_vars

\* The stop was accepted after the second segment was rendered: the third
\* one was emitted and not rendered.
C30_Witness ==
    /\ Done
    /\ cancel = TRUE
    /\ result = "err_transcription"
    /\ exc = "err_user_cancelation"
    /\ seg_n = 3
    /\ SegsOf(doc) = <<1, 2>>

\* ------------------------------------------------ claims about the final save

\* The last call of save_doc in this run.
LastSave == save_log[Len(save_log)]

\* C31: a run is reported as finished only after a final save has written
\* the complete document, every emitted segment in it, to the file that
\* self.my_transcript_file names (the chosen one or an alternative); the
\* final save is called with auto save on and off, and when it raises the
\* run ends with err_transcription and not as finished.
C31_FinishedMeansSaved ==
    /\ (Done /\ result = "finished") =>
           /\ save_log # << >>
           /\ LastSave.by = "final"
           /\ LastSave.raised = ""
           /\ saves # << >>
           /\ Last(saves).by = "final"
           /\ Last(saves).path = my_transcript_file
           /\ Last(saves).doc = doc
           /\ SegsOf(doc) = UpTo(seg_n)
           /\ files[my_transcript_file].state = "written"
           /\ files[my_transcript_file].doc = doc
    /\ (save_log # << >> /\ LastSave.by = "final" /\ LastSave.raised # "") =>
           /\ Done
           /\ result = "err_transcription"
           /\ exc = LastSave.raised
           /\ report = "none"
    /\ (pc = "done" /\ result = "err_transcription" /\ exc = "engine") =>
           \A i \in DOMAIN save_log : save_log[i].by # "final"

\* A run without auto save has finished: its only save is the final one,
\* of three segments.
C31_Witness ==
    /\ Done
    /\ result = "finished"
    /\ auto_save = FALSE
    /\ Len(save_log) = 1
    /\ LastSave.by = "final"
    /\ SegsOf(files[my_transcript_file].doc) = <<1, 2, 3>>

\* C32: a save never writes to a file that was at the alternative name
\* before the attempt.  When the write to self.my_transcript_file fails and
\* the alternative name exists, save_doc opens nothing more and raises
\* rescue_saving_failed, the file under that name stays as it was, and the
\* run ends without another save.
C32_RescueNeverOverwrites ==
    [][pc # "done" =>
           /\ \A p \in Paths : files[p].state = "other" => files'[p] = files[p]
           /\ \A i \in DOMAIN save_log' :
                  LET s == save_log'[i]
                  IN  (~s.opens[1].ok /\ s.alt_exists) =>
                          /\ Len(s.opens) = 1
                          /\ s.raised = "rescue_saving_failed"
                          /\ ~s.rescued
                          /\ i = Len(save_log')
                          /\ pc' = "done"
                          /\ \A k \in DOMAIN saves' : saves'[k].path # AltPath(s.path)]_vars

\* The write to "t.html" failed and "t_1.html" was there: the run has ended
\* and "t_1.html" is still the user's file.
C32_Witness ==
    /\ Done
    /\ exc = "rescue_saving_failed"
    /\ LastSave.path = [base |-> "t", n |-> 0]
    /\ LastSave.alt_exists
    /\ files[[base |-> "t", n |-> 1]] = Other
    /\ files[[base |-> "t", n |-> 0]] = Absent

\* The name with one more "_1" at the end of its stem.
Suffixed(path) == [base |-> path.base, n |-> path.n + 1]

\* The file that the call of save_doc recorded in s leaves in
\* self.my_transcript_file.
LeftBy(s) == IF s.opens[1].ok THEN s.path ELSE Suffixed(s.path)

\* C33: after a rescue save has succeeded, every later save of the run
\* (auto save, save on cancellation, final save) opens the alternative
\* file first, the file chosen at the start is not written again, and a
\* later failure takes its alternative name from the name in use, which
\* ends with "_1" already.
C33_RescueMovesTheTarget ==
    /\ \A j \in DOMAIN save_log :
           /\ save_log[j].opens[1].path = save_log[j].path
           /\ j > 1 => save_log[j].path = LeftBy(save_log[j - 1])
           /\ Len(save_log[j].opens) = 2 => save_log[j].opens[2].path = Suffixed(save_log[j].path)
    /\ \A i \in Rescues :
           /\ save_log[i].opens[2].path = Suffixed(save_log[i].path)
           /\ \A j \in DOMAIN save_log :
                  j > i => /\ save_log[j].path.base = save_log[1].path.base
                           /\ save_log[j].path.n > save_log[i].path.n
                           /\ save_log[j].path # save_log[1].path
    /\ \A k \in DOMAIN saves, l \in DOMAIN saves :
           k < l => /\ saves[k].path.base = saves[l].path.base
                    /\ saves[k].path.n <= saves[l].path.n
    /\ (save_log # << >> /\ pc # "idle") => my_transcript_file = LeftBy(LastSave)

\* The first auto save was rescued to "u_1.html"; the second one opened
\* "u_1.html" first, failed on it and was rescued to "u_1_1.html".
C33_Witness ==
    /\ Len(save_log) = 2
    /\ Rescues = {1, 2}
    /\ save_log[1].path = [base |-> "u", n |-> 0]
    /\ save_log[2].opens[1].path = [base |-> "u", n |-> 1]
    /\ save_log[2].opens[2].path = [base |-> "u", n |-> 2]
    /\ Len(saves) = 2
    /\ saves[2].path = [base |-> "u", n |-> 2]
    /\ files[[base |-> "u", n |-> 0]] = Absent

\* C34: a run that finishes reports the warning about the alternative file
\* if and only if one of its saves was a rescue save, whatever file
\* selections were handled inside the updates of the run.
C34_WarningIffRescued ==
    (Done /\ result = "finished") => (report = "rescue_saving" <=> Rescues # {})

\* ------------------------------------------- claims about segments of length 0

\* C35: for a text segment whose start equals its end, find_speaker returns
\* the empty label without the mark, and its flag is clear, for every
\* sequence of speaker intervals: overlap_len returns the value of the
\* early exit for every interval that touches the segment, which ends the
\* scan, and 0 for every interval before it.
C35_PointSegmentGetsNoSpeaker ==
    (Returned /\ fs_start = fs_end) =>
        /\ fs_ret = EmptyStr
        /\ fs_scan.spkr = EmptyStr
        /\ ~fs_scan.is_parallel
        /\ \A i \in DOMAIN fs_diar :
               /\ Touches(fs_diar[i]) => Ratio(fs_diar[i]) = EarlyExit
               /\ Ratio(fs_diar[i]) \in {EarlyExit, NoOverlap}
        /\ (\E i \in DOMAIN fs_diar : Touches(fs_diar[i])) => fs_scan.stopped

\* The first interval lies before the point segment and the second one
\* holds it: the scan has stopped there with no label.
C35_Witness ==
    /\ Returned
    /\ fs_start = fs_end
    /\ fs_parallel
    /\ Len(fs_diar) = 2
    /\ ~Touches(fs_diar[1])
    /\ Touches(fs_diar[2])
    /\ fs_diar[2].start < fs_start
    /\ fs_start < fs_diar[2].end
    /\ fs_scan.stopped
    /\ fs_ret = EmptyStr

=============================================================================
